---------------------------- MODULE Spec2Model ----------------------------
(***************************************************************************)
(* A model of sanic_jwt_extended/jwt_manager.py: the JWTManager object,    *)
(* its table of callback attributes ("hooks"), the loader methods that     *)
(* replace them, init_app with the exception handlers it registers on the  *)
(* application, and the two token issuance methods.                        *)
(*                                                                         *)
(* Python values are modelled as follows.  A callback is named by a        *)
(* string; None is the string "None".  Every hook is declared              *)
(* Callable[..., Awaitable[...]] (lines 39-52), so calling a hook yields a *)
(* coroutine object, and only `await` turns it into the hook's result.     *)
(* app.config is a dict: a function whose DOMAIN is the set of keys set.   *)
(* A timedelta is its number of seconds.                                   *)
(***************************************************************************)
EXTENDS Integers, Sequences, FiniteSets, TLC

VARIABLES
    registry,    \* the manager's callback attributes: attribute name -> callback
    appConfig,   \* app.config of the Sanic application
    handlers,    \* the application's exception handlers, in registration order
    last,        \* the last operation: its arguments, the calls it made, its result
    lastReg,     \* history: the callback given to the last loader call, per hook
    appInitial,  \* history: app.config as the application set it up
    nRegs,       \* history: the number of loader calls made
    nInit        \* history: the number of init_app calls made

vars == <<registry, appConfig, handlers, last, lastReg, appInitial, nRegs, nInit>>

----------------------------------------------------------------------------
(* Bounds of the model *)

\* loader calls explored when only the registry operations are run
MaxRegs == 2
\* loader calls explored when they interleave with failures and issuance
MaxOverrides == 1
\* init_app calls explored
MaxInitCalls == 1

\* callbacks the application can register
AppCallbacks == {"cb1", "cb2"}
\* the one registered where loader calls interleave with failures and issuance
OneCallback == {"cb1"}
\* identity objects given to issuance, and identities saved for a request
Identities == {"u1", "u2"}
\* messages an exception can carry
Messages == {"m1"}
\* expires_delta values a caller can give, in seconds
Deltas == {-1, 0, 30}

----------------------------------------------------------------------------
(* Python values *)

None == "None"

\* calling a coroutine function: nothing of its body has run yet
Call(fn, args) == [tag |-> "coroutine", fn |-> fn, args |-> args]

\* `await c`: the coroutine runs and yields the function's result for args
Await(c) == [tag |-> "result", fn |-> c.fn, args |-> c.args]

\* a plain object handed around as a value
Obj(v) == [tag |-> "object", v |-> v]

NoneValue == [tag |-> "None"]

\* str(e)
Str(e) == e.msg

----------------------------------------------------------------------------
(* The callback attributes *)

HookNames == {
    "_user_claims_callback", "_user_identity_callback", "_expired_token_callback",
    "_invalid_token_callback", "_unauthorized_callback", "_needs_fresh_token_callback",
    "_revoked_token_callback", "_user_loader_callback", "_user_loader_error_callback",
    "_token_in_blacklist_callback", "_claims_verification_callback",
    "_verify_claims_failed_callback", "_decode_key_callback", "_encode_key_callback" }

\* __init__ as it would be if every attribute were seeded with a callable, the
\* user loader and the blacklist predicate included
JWTManagerInit_AllCallable ==
    [h \in HookNames |->
        CASE h = "_user_claims_callback" -> "default_user_claims_callback"
          [] h = "_user_identity_callback" -> "default_user_identity_callback"
          [] h = "_expired_token_callback" -> "default_expired_token_callback"
          [] h = "_invalid_token_callback" -> "default_invalid_token_callback"
          [] h = "_unauthorized_callback" -> "default_unauthorized_callback"
          [] h = "_needs_fresh_token_callback" -> "default_needs_fresh_token_callback"
          [] h = "_revoked_token_callback" -> "default_revoked_token_callback"
          [] h = "_user_loader_callback" -> "default_user_loader_callback"
          [] h = "_user_loader_error_callback" -> "default_user_loader_error_callback"
          [] h = "_token_in_blacklist_callback" -> "default_token_in_blacklist_callback"
          [] h = "_claims_verification_callback" -> "default_claims_verification_callback"
          [] h = "_verify_claims_failed_callback" -> "default_verify_claims_failed_callback"
          [] h = "_decode_key_callback" -> "default_decode_key_callback"
          [] h = "_encode_key_callback" -> "default_encode_key_callback"]

\* JWTManager.__init__: the attributes as the constructor leaves them
JWTManagerInit ==
    [h \in HookNames |->
        CASE h = "_user_claims_callback" -> "default_user_claims_callback"
          [] h = "_user_identity_callback" -> "default_user_identity_callback"
          [] h = "_expired_token_callback" -> "default_expired_token_callback"
          [] h = "_invalid_token_callback" -> "default_invalid_token_callback"
          [] h = "_unauthorized_callback" -> "default_unauthorized_callback"
          [] h = "_needs_fresh_token_callback" -> "default_needs_fresh_token_callback"
          [] h = "_revoked_token_callback" -> "default_revoked_token_callback"
          [] h = "_user_loader_callback" -> None
          [] h = "_user_loader_error_callback" -> "default_user_loader_error_callback"
          [] h = "_token_in_blacklist_callback" -> None
          [] h = "_claims_verification_callback" -> "default_claims_verification_callback"
          [] h = "_verify_claims_failed_callback" -> "default_verify_claims_failed_callback"
          [] h = "_decode_key_callback" -> "default_decode_key_callback"
          [] h = "_encode_key_callback" -> "default_encode_key_callback"]

\* what default_claims_verification_callback answers for any claims
default_claims_verification_callback(user_claims) == TRUE

----------------------------------------------------------------------------
(* Configuration *)

AccessExpiresDefault == 900
RefreshExpiresDefault == 2592000

\* the options _set_default_configuration_options names, with their defaults
DefaultConfiguration ==
    [JWT_TOKEN_LOCATION |-> <<"headers">>,
     JWT_HEADER_NAME |-> "Authorization",
     JWT_HEADER_TYPE |-> "Bearer",
     JWT_QUERY_STRING_NAME |-> "jwt",
     JWT_ACCESS_COOKIE_NAME |-> "access_token_cookie",
     JWT_REFRESH_COOKIE_NAME |-> "refresh_token_cookie",
     JWT_ACCESS_COOKIE_PATH |-> "/",
     JWT_REFRESH_COOKIE_PATH |-> "/",
     JWT_COOKIE_SECURE |-> FALSE,
     JWT_COOKIE_DOMAIN |-> None,
     JWT_SESSION_COOKIE |-> TRUE,
     JWT_COOKIE_SAMESITE |-> None,
     JWT_JSON_KEY |-> "access_token",
     JWT_REFRESH_JSON_KEY |-> "refresh_token",
     JWT_COOKIE_CSRF_PROTECT |-> TRUE,
     JWT_CSRF_METHODS |-> <<"POST", "PUT", "PATCH", "DELETE">>,
     JWT_ACCESS_CSRF_HEADER_NAME |-> "X-CSRF-TOKEN",
     JWT_REFRESH_CSRF_HEADER_NAME |-> "X-CSRF-TOKEN",
     JWT_CSRF_IN_COOKIES |-> TRUE,
     JWT_ACCESS_CSRF_COOKIE_NAME |-> "csrf_access_token",
     JWT_REFRESH_CSRF_COOKIE_NAME |-> "csrf_refresh_token",
     JWT_ACCESS_CSRF_COOKIE_PATH |-> "/",
     JWT_REFRESH_CSRF_COOKIE_PATH |-> "/",
     JWT_ACCESS_TOKEN_EXPIRES |-> AccessExpiresDefault,
     JWT_REFRESH_TOKEN_EXPIRES |-> RefreshExpiresDefault,
     JWT_ALGORITHM |-> "HS256",
     JWT_SECRET_KEY |-> None,
     JWT_PRIVATE_KEY |-> None,
     JWT_PUBLIC_KEY |-> None,
     JWT_BLACKLIST_ENABLED |-> FALSE,
     JWT_BLACKLIST_TOKEN_CHECKS |-> <<"access", "refresh">>,
     JWT_IDENTITY_CLAIM |-> "identity",
     JWT_USER_CLAIMS |-> "user_claims",
     JWT_CLAIMS_IN_REFRESH_TOKEN |-> FALSE,
     JWT_ERROR_MESSAGE_KEY |-> "msg"]

OptionNames == DOMAIN DefaultConfiguration

\* the body of the coroutine function _set_default_configuration_options: one
\* app.config.setdefault(option, default) per option, which leaves a key that
\* is set alone and sets a missing one
_set_default_configuration_options(cfg) ==
    [o \in (DOMAIN cfg) \cup OptionNames |->
        IF o \in DOMAIN cfg THEN cfg[o] ELSE DefaultConfiguration[o]]

\* app.config as applications set it up before the extension is bound.  It
\* always holds the framework's own keys.  Both applications set the options
\* issuance reads and leave the extension's other options unset: one spells
\* out the documented values, the other chooses its own
AppConfigs == {
    [KEEP_ALIVE |-> TRUE,
     JWT_CLAIMS_IN_REFRESH_TOKEN |-> FALSE,
     JWT_ALGORITHM |-> "HS256",
     JWT_ACCESS_TOKEN_EXPIRES |-> AccessExpiresDefault,
     JWT_REFRESH_TOKEN_EXPIRES |-> RefreshExpiresDefault,
     JWT_COOKIE_CSRF_PROTECT |-> TRUE,
     JWT_IDENTITY_CLAIM |-> "identity",
     JWT_USER_CLAIMS |-> "user_claims"],
    [KEEP_ALIVE |-> TRUE,
     JWT_CLAIMS_IN_REFRESH_TOKEN |-> TRUE,
     JWT_ALGORITHM |-> "RS256",
     JWT_ACCESS_TOKEN_EXPIRES |-> 60,
     JWT_REFRESH_TOKEN_EXPIRES |-> 3600,
     JWT_COOKIE_CSRF_PROTECT |-> FALSE,
     JWT_IDENTITY_CLAIM |-> "sub",
     JWT_USER_CLAIMS |-> "claims"] }

\* the config object issuance reads (config.refresh_expires, config.algorithm,
\* ...): each property is the application's value of its option
config ==
    [user_claims_in_refresh_token |-> appConfig["JWT_CLAIMS_IN_REFRESH_TOKEN"],
     access_expires |-> appConfig["JWT_ACCESS_TOKEN_EXPIRES"],
     refresh_expires |-> appConfig["JWT_REFRESH_TOKEN_EXPIRES"],
     algorithm |-> appConfig["JWT_ALGORITHM"],
     csrf_protect |-> appConfig["JWT_COOKIE_CSRF_PROTECT"],
     identity_claim_key |-> appConfig["JWT_IDENTITY_CLAIM"],
     user_claims_key |-> appConfig["JWT_USER_CLAIMS"],
     json_encoder |-> "json_encoder"]

----------------------------------------------------------------------------
(* Construction *)

NoCall == "NoCall"

\* the state after JWTManager() for an application whose config is set up;
\* JWTManager(app) is this followed at once by init_app
Init ==
    /\ registry = JWTManagerInit
    /\ appConfig \in AppConfigs
    /\ appInitial = appConfig
    /\ handlers = <<>>
    /\ last = [op |-> "construct"]
    /\ lastReg = [h \in HookNames |-> NoCall]
    /\ nRegs = 0
    /\ nInit = 0

----------------------------------------------------------------------------
(* The loaders *)

\* what every loader does: `self.<attr> = callback; return callback`.  ran
\* says whether the body ran: a plain method's body runs when it is called, a
\* coroutine method's body runs only if the caller awaits the call
Loader(name, attr, callback, ran) ==
    /\ registry' = IF ran THEN [registry EXCEPT ![attr] = callback] ELSE registry
    /\ lastReg' = [lastReg EXCEPT ![attr] = callback]
    /\ nRegs' = nRegs + 1
    /\ last' = [op |-> "loader", loader |-> name, hook |-> attr,
                callback |-> Obj(callback),
                ret |-> IF ran THEN Obj(callback) ELSE Call(name, <<callback>>)]
    /\ UNCHANGED <<appConfig, appInitial, handlers, nInit>>

\* async def: calling it makes a coroutine; its body runs only when awaited
user_claims_loader(callback, awaited) ==
    Loader("user_claims_loader", "_user_claims_callback", callback, awaited)

\* async def
user_identity_loader(callback, awaited) ==
    Loader("user_identity_loader", "_user_identity_callback", callback, awaited)

\* async def
expired_token_loader(callback, awaited) ==
    Loader("expired_token_loader", "_expired_token_callback", callback, awaited)

invalid_token_loader(callback) ==
    Loader("invalid_token_loader", "_invalid_token_callback", callback, TRUE)

unauthorized_loader(callback) ==
    Loader("unauthorized_loader", "_unauthorized_callback", callback, TRUE)

needs_fresh_token_loader(callback) ==
    Loader("needs_fresh_token_loader", "_needs_fresh_token_callback", callback, TRUE)

revoked_token_loader(callback) ==
    Loader("revoked_token_loader", "_revoked_token_callback", callback, TRUE)

user_loader_callback_loader(callback) ==
    Loader("user_loader_callback_loader", "_user_loader_callback", callback, TRUE)

user_loader_error_loader(callback) ==
    Loader("user_loader_error_loader", "_user_loader_error_callback", callback, TRUE)

token_in_blacklist_loader(callback) ==
    Loader("token_in_blacklist_loader", "_token_in_blacklist_callback", callback, TRUE)

claims_verification_loader(callback) ==
    Loader("claims_verification_loader", "_claims_verification_callback", callback, TRUE)

claims_verification_failed_loader(callback) ==
    Loader("claims_verification_failed_loader", "_verify_claims_failed_callback",
           callback, TRUE)

decode_key_loader(callback) ==
    Loader("decode_key_loader", "_decode_key_callback", callback, TRUE)

encode_key_loader(callback) ==
    Loader("encode_key_loader", "_encode_key_callback", callback, TRUE)

----------------------------------------------------------------------------
(* init_app and the exception handlers *)

\* the registrations with InvalidTokenError's made before that of its subclass
\* ExpiredSignatureError
ExceptionHandlers_InvalidFirst == <<
    <<"NoAuthorizationError", "handle_auth_error">>,
    <<"CSRFError", "handle_csrf_error">>,
    <<"InvalidTokenError", "handle_invalid_token_error">>,
    <<"InvalidHeaderError", "handle_invalid_header_error">>,
    <<"ExpiredSignatureError", "handle_expired_error">>,
    <<"JWTDecodeError", "handle_jwt_decode_error">>,
    <<"WrongTokenError", "handle_wrong_token_error">>,
    <<"RevokedTokenError", "handle_revoked_token_error">>,
    <<"FreshTokenRequired", "handle_fresh_token_required">>,
    <<"UserLoadError", "handler_user_load_error">>,
    <<"UserClaimsVerificationError", "handle_failed_user_claims_verification">> >>

\* _set_exception_callbacks: the @app.exception registrations, in order
ExceptionHandlers == <<
    <<"NoAuthorizationError", "handle_auth_error">>,
    <<"CSRFError", "handle_csrf_error">>,
    <<"ExpiredSignatureError", "handle_expired_error">>,
    <<"InvalidHeaderError", "handle_invalid_header_error">>,
    <<"InvalidTokenError", "handle_invalid_token_error">>,
    <<"JWTDecodeError", "handle_jwt_decode_error">>,
    <<"WrongTokenError", "handle_wrong_token_error">>,
    <<"RevokedTokenError", "handle_revoked_token_error">>,
    <<"FreshTokenRequired", "handle_fresh_token_required">>,
    <<"UserLoadError", "handler_user_load_error">>,
    <<"UserClaimsVerificationError", "handle_failed_user_claims_verification">> >>

\* init_app: _set_default_configuration_options is a coroutine function and
\* the call is not awaited, so the call only makes a coroutine object, which is
\* dropped: none of its setdefault lines runs.  _set_exception_callbacks is a
\* plain method and registers the handlers
init_app ==
    /\ nInit < MaxInitCalls
    /\ appConfig' = appConfig
    /\ handlers' = handlers \o ExceptionHandlers
    /\ nInit' = nInit + 1
    /\ last' = [op |-> "init_app",
                dropped |-> Call("_set_default_configuration_options", <<"app">>)]
    /\ UNCHANGED <<registry, lastReg, appInitial, nRegs>>

----------------------------------------------------------------------------
(* Exceptions and their dispatch to the registered handlers *)

\* the exception classes a request can fail with: the ones handlers are
\* registered for, and PyJWT's DecodeError and InvalidSignatureError
RaisedClasses == {
    "NoAuthorizationError", "CSRFError", "ExpiredSignatureError", "InvalidHeaderError",
    "InvalidTokenError", "DecodeError", "InvalidSignatureError", "JWTDecodeError",
    "WrongTokenError", "RevokedTokenError", "FreshTokenRequired", "UserLoadError",
    "UserClaimsVerificationError" }

\* the base class of each exception class.  PyJWT: ExpiredSignatureError and
\* DecodeError are InvalidTokenErrors, InvalidSignatureError is a DecodeError.
\* The extension's own exceptions all derive from JWTExtendedException
Parent(c) ==
    CASE c = "ExpiredSignatureError" -> "InvalidTokenError"
      [] c = "DecodeError" -> "InvalidTokenError"
      [] c = "InvalidSignatureError" -> "DecodeError"
      [] c = "InvalidTokenError" -> "PyJWTError"
      [] c \in {"PyJWTError", "JWTExtendedException"} -> "Exception"
      [] OTHER -> "JWTExtendedException"

\* the method resolution order of a class, up to Exception
RECURSIVE Mro(_)
Mro(c) == IF c = "Exception" THEN <<c>> ELSE <<c>> \o Mro(Parent(c))

MroOf == [c \in RaisedClasses |-> Mro(c)]

BasesOf == [c \in RaisedClasses |-> {MroOf[c][i] : i \in 1..Len(MroOf[c])}]

\* isinstance(an exception of class c, d)
IsInstance(c, d) == d \in BasesOf[c]

\* the framework's handler lookup as older releases do it: the first
\* registered handler, from position i on, whose class the exception is an
\* instance of
RECURSIVE FirstMatchFrom(_, _, _)
FirstMatchFrom(hs, c, i) ==
    IF i > Len(hs) THEN None
    ELSE IF IsInstance(c, hs[i][1]) THEN hs[i][2]
    ELSE FirstMatchFrom(hs, c, i + 1)

LookupFirstMatch(hs, c) == FirstMatchFrom(hs, c, 1)

\* the handler registered last for exactly class k, None when there is none
RECURSIVE LastFor(_, _, _)
LastFor(hs, k, i) ==
    IF i = 0 THEN None
    ELSE IF hs[i][1] = k THEN hs[i][2]
    ELSE LastFor(hs, k, i - 1)

\* the lookup as newer releases do it: the handler registered (last) for the
\* nearest class, from position j on, of the exception's method resolution
\* order
RECURSIVE MroFrom(_, _, _)
MroFrom(hs, m, j) ==
    IF j > Len(m) THEN None
    ELSE IF LastFor(hs, m[j], Len(hs)) # None THEN LastFor(hs, m[j], Len(hs))
    ELSE MroFrom(hs, m, j + 1)

LookupMro(hs, c) == MroFrom(hs, MroOf[c], 1)

\* the handlers the installed framework can pick for an exception of class c
Lookup(hs, c) == {LookupFirstMatch(hs, c), LookupMro(hs, c)}

\* the identity saved for the request before an exception was raised
get_jwt_identity(req) == req.identity

\* `self.<hook>(*args)` as a handler or an issuance method makes it
HookCall(hook, args) == [hook |-> hook, fn |-> registry[hook], args |-> args]

\* a handler answering with the callback the constructor set, not the one
\* registered now
AwaitHook_Captured(hook, args) ==
    [calls |-> <<[hook |-> hook, fn |-> JWTManagerInit[hook], args |-> args]>>,
     response |-> Await(Call(JWTManagerInit[hook], args))]

\* `return await self.<hook>(*args)`
AwaitHook(hook, args) ==
    [calls |-> <<HookCall(hook, args)>>,
     response |-> Await(Call(registry[hook], args))]

handle_auth_error(e) == AwaitHook("_unauthorized_callback", <<Str(e)>>)

handle_csrf_error(e) == AwaitHook("_unauthorized_callback", <<Str(e)>>)

handle_expired_error(e) == AwaitHook("_expired_token_callback", <<>>)

handle_invalid_header_error(e) == AwaitHook("_invalid_token_callback", <<Str(e)>>)

handle_invalid_token_error(e) == AwaitHook("_invalid_token_callback", <<Str(e)>>)

handle_jwt_decode_error(e) == AwaitHook("_invalid_token_callback", <<Str(e)>>)

handle_wrong_token_error(e) == AwaitHook("_invalid_token_callback", <<Str(e)>>)

\* the revoked-token handler answering with the expired-token callback
handle_revoked_token_error_Expired(e) == AwaitHook("_expired_token_callback", <<>>)

handle_revoked_token_error(e) == AwaitHook("_revoked_token_callback", <<>>)

handle_fresh_token_required(e) == AwaitHook("_needs_fresh_token_callback", <<>>)

\* the user-load handler reporting the exception's text, not the identity
handler_user_load_error_Text(e, req) ==
    AwaitHook("_user_loader_error_callback", <<Str(e)>>)

handler_user_load_error(e, req) ==
    LET identity == get_jwt_identity(req)
    IN AwaitHook("_user_loader_error_callback", <<identity>>)

handle_failed_user_claims_verification(e) ==
    AwaitHook("_verify_claims_failed_callback", <<>>)

\* running the handler the lookup found
RunHandler(name, e, req) ==
    CASE name = "handle_auth_error" -> handle_auth_error(e)
      [] name = "handle_csrf_error" -> handle_csrf_error(e)
      [] name = "handle_expired_error" -> handle_expired_error(e)
      [] name = "handle_invalid_header_error" -> handle_invalid_header_error(e)
      [] name = "handle_invalid_token_error" -> handle_invalid_token_error(e)
      [] name = "handle_jwt_decode_error" -> handle_jwt_decode_error(e)
      [] name = "handle_wrong_token_error" -> handle_wrong_token_error(e)
      [] name = "handle_revoked_token_error" -> handle_revoked_token_error(e)
      [] name = "handle_fresh_token_required" -> handle_fresh_token_required(e)
      [] name = "handler_user_load_error" -> handler_user_load_error(e, req)
      [] name = "handle_failed_user_claims_verification" ->
            handle_failed_user_claims_verification(e)

Exceptions == [cls : RaisedClasses, msg : Messages]

\* a request's context: the identity saved for it, None when none was.  A
\* UserLoadError is raised only after the identity was saved
Requests == [identity : Identities \cup {None}]

\* a request fails with exception e, and the application answers it with the
\* handler registered for it
HandleException(e, req) ==
    /\ handlers # <<>>
    /\ e.cls = "UserLoadError" => req.identity # None
    /\ \E name \in Lookup(handlers, e.cls) :
       LET r == RunHandler(name, e, req)
       IN last' = [op |-> "handle", exc |-> e, request |-> req, handler |-> name,
                   calls |-> r.calls, response |-> r.response]
    /\ UNCHANGED <<registry, lastReg, nRegs, appConfig, appInitial, handlers, nInit>>

----------------------------------------------------------------------------
(* Token issuance *)

\* an optional argument: <<>> when the caller gives none, <<v>> when it gives v
Optional(S) == {<<>>} \cup {<<v>> : v \in S}

\* a parameter that ignores the caller's argument
Param_Ignored(given, default) == default

\* the value of a parameter with a default
Param(given, default) == IF given = <<>> THEN default ELSE given[1]

\* _create_refresh_token: the hook calls it makes, in order, and the keyword
\* arguments it hands to encode_refresh_token
_create_refresh_token(identity, expires_delta) ==
    LET delta == IF expires_delta = <<>> THEN config.refresh_expires
                 ELSE expires_delta[1]
        in_refresh == config.user_claims_in_refresh_token
        user_claims == IF in_refresh
                       THEN Call(registry["_user_claims_callback"], <<identity>>)
                       ELSE NoneValue
    IN [encoder |-> "encode_refresh_token",
        calls |-> (IF in_refresh
                   THEN <<HookCall("_user_claims_callback", <<identity>>)>>
                   ELSE <<>>)
                  \o <<HookCall("_user_identity_callback", <<identity>>),
                       HookCall("_encode_key_callback", <<identity>>)>>,
        kwargs |-> [identity |-> Call(registry["_user_identity_callback"], <<identity>>),
                    secret |-> Call(registry["_encode_key_callback"], <<identity>>),
                    algorithm |-> config.algorithm,
                    expires_delta |-> delta,
                    user_claims |-> user_claims,
                    csrf |-> config.csrf_protect,
                    identity_claim_key |-> config.identity_claim_key,
                    user_claims_key |-> config.user_claims_key,
                    json_encoder |-> config.json_encoder]]

\* _create_access_token with the test "if not expires_delta": a zero timedelta
\* is falsy, so a zero delta is replaced by the configured lifetime
_create_access_token_ZeroIsMissing(identity, fresh, expires_delta) ==
    LET delta == IF expires_delta = <<>> \/ expires_delta = <<0>>
                 THEN config.access_expires
                 ELSE expires_delta[1]
    IN [encoder |-> "encode_access_token",
        calls |-> <<HookCall("_user_identity_callback", <<identity>>),
                    HookCall("_encode_key_callback", <<identity>>),
                    HookCall("_user_claims_callback", <<identity>>)>>,
        kwargs |-> [identity |-> Call(registry["_user_identity_callback"], <<identity>>),
                    secret |-> Call(registry["_encode_key_callback"], <<identity>>),
                    algorithm |-> config.algorithm,
                    expires_delta |-> delta,
                    fresh |-> fresh,
                    user_claims |-> Call(registry["_user_claims_callback"], <<identity>>),
                    csrf |-> config.csrf_protect,
                    identity_claim_key |-> config.identity_claim_key,
                    user_claims_key |-> config.user_claims_key,
                    json_encoder |-> config.json_encoder]]

\* _create_access_token, likewise, for encode_access_token
_create_access_token(identity, fresh, expires_delta) ==
    LET delta == IF expires_delta = <<>> THEN config.access_expires
                 ELSE expires_delta[1]
    IN [encoder |-> "encode_access_token",
        calls |-> <<HookCall("_user_identity_callback", <<identity>>),
                    HookCall("_encode_key_callback", <<identity>>),
                    HookCall("_user_claims_callback", <<identity>>)>>,
        kwargs |-> [identity |-> Call(registry["_user_identity_callback"], <<identity>>),
                    secret |-> Call(registry["_encode_key_callback"], <<identity>>),
                    algorithm |-> config.algorithm,
                    expires_delta |-> delta,
                    fresh |-> fresh,
                    user_claims |-> Call(registry["_user_claims_callback"], <<identity>>),
                    csrf |-> config.csrf_protect,
                    identity_claim_key |-> config.identity_claim_key,
                    user_claims_key |-> config.user_claims_key,
                    json_encoder |-> config.json_encoder]]

\* a call of _create_refresh_token(identity[, expires_delta])
CreateRefreshToken(identity, expires_delta) ==
    /\ LET r == _create_refresh_token(identity, expires_delta)
       IN last' = [op |-> "refresh", identity |-> identity,
                   expires_given |-> expires_delta,
                   encoder |-> r.encoder, calls |-> r.calls, kwargs |-> r.kwargs]
    /\ UNCHANGED <<registry, lastReg, nRegs, appConfig, appInitial, handlers, nInit>>

\* a call of _create_access_token(identity[, fresh][, expires_delta]); fresh
\* defaults to False
CreateAccessToken(identity, fresh_given, expires_delta) ==
    /\ LET r == _create_access_token(identity, Param(fresh_given, FALSE), expires_delta)
       IN last' = [op |-> "access", identity |-> identity,
                   fresh_given |-> fresh_given, expires_given |-> expires_delta,
                   encoder |-> r.encoder, calls |-> r.calls, kwargs |-> r.kwargs]
    /\ UNCHANGED <<registry, lastReg, nRegs, appConfig, appInitial, handlers, nInit>>

----------------------------------------------------------------------------
(* Specifications *)

\* a loader call by the application with one of callbacks, while fewer than
\* limit calls were made
LoaderCall(limit, callbacks) ==
    \/ \E callback \in callbacks, awaited \in BOOLEAN :
          nRegs < limit /\ user_claims_loader(callback, awaited)
    \/ \E callback \in callbacks, awaited \in BOOLEAN :
          nRegs < limit /\ user_identity_loader(callback, awaited)
    \/ \E callback \in callbacks, awaited \in BOOLEAN :
          nRegs < limit /\ expired_token_loader(callback, awaited)
    \/ \E callback \in callbacks :
          nRegs < limit /\ invalid_token_loader(callback)
    \/ \E callback \in callbacks :
          nRegs < limit /\ unauthorized_loader(callback)
    \/ \E callback \in callbacks :
          nRegs < limit /\ needs_fresh_token_loader(callback)
    \/ \E callback \in callbacks :
          nRegs < limit /\ revoked_token_loader(callback)
    \/ \E callback \in callbacks :
          nRegs < limit /\ user_loader_callback_loader(callback)
    \/ \E callback \in callbacks :
          nRegs < limit /\ user_loader_error_loader(callback)
    \/ \E callback \in callbacks :
          nRegs < limit /\ token_in_blacklist_loader(callback)
    \/ \E callback \in callbacks :
          nRegs < limit /\ claims_verification_loader(callback)
    \/ \E callback \in callbacks :
          nRegs < limit /\ claims_verification_failed_loader(callback)
    \/ \E callback \in callbacks :
          nRegs < limit /\ decode_key_loader(callback)
    \/ \E callback \in callbacks :
          nRegs < limit /\ encode_key_loader(callback)

\* construction, binding and registration only
NextRegistry ==
    \/ init_app
    \/ LoaderCall(MaxRegs, AppCallbacks)

SpecRegistry == Init /\ [][NextRegistry]_vars

\* binding, registration and the handling of failed requests
NextHandling ==
    \/ init_app
    \/ LoaderCall(MaxOverrides, OneCallback)
    \/ \E e \in Exceptions, req \in Requests : HandleException(e, req)

SpecHandling == Init /\ [][NextHandling]_vars

\* registration and token issuance
NextIssuance ==
    \/ LoaderCall(MaxOverrides, OneCallback)
    \/ \E identity \in Identities, expires_delta \in Optional(Deltas) :
          CreateRefreshToken(identity, expires_delta)
    \/ \E identity \in Identities, fresh \in Optional(BOOLEAN),
          expires_delta \in Optional(Deltas) :
          CreateAccessToken(identity, fresh, expires_delta)

SpecIssuance == Init /\ [][NextIssuance]_vars

\* every operation of the manager and of the application it is bound to
Next ==
    \/ init_app
    \/ LoaderCall(MaxOverrides, OneCallback)
    \/ \E e \in Exceptions, req \in Requests : HandleException(e, req)
    \/ \E identity \in Identities, expires_delta \in Optional(Deltas) :
          CreateRefreshToken(identity, expires_delta)
    \/ \E identity \in Identities, fresh \in Optional(BOOLEAN),
          expires_delta \in Optional(Deltas) :
          CreateAccessToken(identity, fresh, expires_delta)

Spec == Init /\ [][Next]_vars

----------------------------------------------------------------------------
(* Properties *)

\* the hooks an operation called
CalledHooks(l) == {l.calls[i].hook : i \in 1..Len(l.calls)}

\* the result a hook yields for an argument, once awaited
Yields(hook, arg) == Await(Call(registry[hook], <<arg>>))

\* the rejection kind an exception class stands for
KindOf(c) ==
    CASE c = "NoAuthorizationError" -> "NoAuthorization"
      [] c = "InvalidHeaderError" -> "InvalidHeader"
      [] c = "ExpiredSignatureError" -> "Expired"
      [] c \in {"InvalidTokenError", "DecodeError", "InvalidSignatureError",
                "JWTDecodeError"} -> "Malformed"
      [] c = "WrongTokenError" -> "WrongTokenType"
      [] c = "FreshTokenRequired" -> "FreshTokenRequired"
      [] c = "RevokedTokenError" -> "Revoked"
      [] c = "CSRFError" -> "CSRFMismatch"
      [] c = "UserClaimsVerificationError" -> "ClaimsVerificationFailed"
      [] c = "UserLoadError" -> "UserLoadFailed"

\* the hook that answers each rejection kind
HookOfKind(k) ==
    CASE k \in {"NoAuthorization", "CSRFMismatch"} -> "_unauthorized_callback"
      [] k \in {"InvalidHeader", "Malformed", "WrongTokenType"} -> "_invalid_token_callback"
      [] k = "Expired" -> "_expired_token_callback"
      [] k = "FreshTokenRequired" -> "_needs_fresh_token_callback"
      [] k = "Revoked" -> "_revoked_token_callback"
      [] k = "ClaimsVerificationFailed" -> "_verify_claims_failed_callback"
      [] k = "UserLoadFailed" -> "_user_loader_error_callback"

\* the hooks the registered handlers call for an exception of class c
HooksFor(c) ==
    UNION { CalledHooks(RunHandler(name, [cls |-> c, msg |-> "m1"], [identity |-> "u1"]))
            : name \in Lookup(handlers, c) }

\* C1: after any sequence of loader calls, every hook's active implementation
\* is the callback given to the last loader call for that hook, and the
\* constructor's default when no loader was called for it.
C1_LastRegistrationWins ==
    \A h \in HookNames :
        registry[h] = IF lastReg[h] = NoCall THEN JWTManagerInit[h] ELSE lastReg[h]

\* C2: once init_app has returned, every option the extension names is in
\* app.config: with the application's value if it had set one, with the
\* documented default otherwise.
C2_DefaultsInstalled ==
    nInit > 0 =>
        \A o \in OptionNames :
            /\ o \in DOMAIN appConfig
            /\ appConfig[o] = IF o \in DOMAIN appInitial THEN appInitial[o]
                              ELSE DefaultConfiguration[o]

\* C3 as stated: a handled failure calls exactly one hook, and no failure of
\* another kind is answered by that hook.
C3_OneToOne ==
    last.op = "handle" =>
        /\ Cardinality(CalledHooks(last)) = 1 /\ Len(last.calls) = 1
        /\ \A c \in RaisedClasses :
              KindOf(c) # KindOf(last.exc.cls) => HooksFor(c) \cap CalledHooks(last) = {}

\* C3 as amended: a handled failure calls exactly one hook, the one fixed by
\* its kind; NoAuthorization and CSRFMismatch share the unauthorized hook, and
\* InvalidHeader, Malformed and WrongTokenType share the invalid-token hook.
C3_OneHookPerKind ==
    last.op = "handle" =>
        /\ Len(last.calls) = 1
        /\ last.calls[1].hook = HookOfKind(KindOf(last.exc.cls))

\* a CSRF failure answered by the hook that also answers a missing token
C3_Witness ==
    /\ last.op = "handle"
    /\ last.exc.cls = "CSRFError"
    /\ CalledHooks(last) = {"_unauthorized_callback"}
    /\ "_unauthorized_callback" \in HooksFor("NoAuthorizationError")

C5_UserLoadErrorReportsIdentity ==
    (last.op = "handle" /\ last.exc.cls = "UserLoadError") =>
        /\ last.calls = <<[hook |-> "_user_loader_error_callback",
                           fn |-> registry["_user_loader_error_callback"],
                           args |-> <<last.request.identity>>]>>
        /\ last.response = Yields("_user_loader_error_callback", last.request.identity)

\* identity u2 failed to load and the application's own hook answered
C5_Witness ==
    /\ last.op = "handle"
    /\ last.exc.cls = "UserLoadError"
    /\ last.request.identity = "u2"
    /\ last.response = [tag |-> "result", fn |-> "cb1", args |-> <<"u2">>]

\* C6: a refresh token gets custom claims only if the option is on: off, the
\* user-claims hook is not called and no claims are passed; on, the hook's
\* claims for the identity are passed.  An access token always gets the hook's
\* claims for the identity.
C6_ClaimsInRefreshOnlyIfConfigured ==
    /\ (last.op = "refresh" /\ ~config.user_claims_in_refresh_token) =>
            /\ "_user_claims_callback" \notin CalledHooks(last)
            /\ last.kwargs.user_claims = NoneValue
    /\ (last.op = "refresh" /\ config.user_claims_in_refresh_token) =>
            last.kwargs.user_claims = Yields("_user_claims_callback", last.identity)
    /\ last.op = "access" =>
            last.kwargs.user_claims = Yields("_user_claims_callback", last.identity)

\* C7: the refresh encoder is never given a fresh flag, and the access encoder
\* is given the caller's fresh argument, False when the caller gives none.
C7_FreshOnlyFromCaller ==
    /\ last.op = "refresh" => "fresh" \notin DOMAIN last.kwargs
    /\ last.op = "access" =>
            /\ "fresh" \in DOMAIN last.kwargs
            /\ last.kwargs.fresh = (last.fresh_given = <<TRUE>>)

\* an access token asked for with fresh=True
C7_Witness ==
    /\ last.op = "access"
    /\ last.fresh_given = <<TRUE>>
    /\ last.kwargs.fresh = TRUE

\* C8 as stated: right after construction every hook holds a callable.
C8_EveryHookCallable ==
    nRegs = 0 => \A h \in HookNames : registry[h] # None

\* C8 as amended: right after construction every hook but the user loader and
\* the blacklist predicate holds a callable default; those two hold None; and
\* the claims-verification hook holds the default that answers valid.
C8_DefaultsAfterConstruction ==
    nRegs = 0 =>
        /\ \A h \in HookNames \ {"_user_loader_callback", "_token_in_blacklist_callback"} :
              registry[h] # None /\ registry[h] \notin AppCallbacks
        /\ registry["_user_loader_callback"] = None
        /\ registry["_token_in_blacklist_callback"] = None
        /\ registry["_claims_verification_callback"] = "default_claims_verification_callback"
        /\ default_claims_verification_callback([role |-> "admin"])

\* a manager bound to its application with no loader called yet
C8_Witness ==
    /\ nRegs = 0
    /\ nInit > 0
    /\ registry["_token_in_blacklist_callback"] = None

\* C9 as stated: once init_app has run, no operation changes a hook.
C9_FrozenAfterInit ==
    [][nInit > 0 => registry' = registry]_vars

\* C9 as amended: only a loader call changes a hook; init_app and the handling
\* of a failure change none, every failure is answered by the implementation
\* registered when it is handled, and two failures of the same class handled
\* with no loader call between them are answered by the same implementation.
C9_OnlyLoadersChangeHooks ==
    [][/\ last'.op # "loader" => registry' = registry
       /\ last'.op = "handle" =>
             \A i \in 1..Len(last'.calls) :
                last'.calls[i].fn = registry[last'.calls[i].hook]
       /\ (last.op = "handle" /\ last'.op = "handle" /\ last'.exc.cls = last.exc.cls) =>
             last'.calls[1].fn = last.calls[1].fn]_vars

\* a loader call made after init_app that replaced its hook
C9_Witness ==
    /\ last.op = "loader"
    /\ nInit > 0
    /\ registry[last.hook] = "cb1"
    /\ JWTManagerInit[last.hook] # "cb1"

\* C10: both encoders are given resolved values: as secret the key the
\* encode-key hook yields for the caller's identity object, as identity the
\* value the user-identity hook yields for it, as claims the mapping the
\* user-claims hook yields (or none); never a pending coroutine.
C10_EncoderGetsResolvedValues ==
    last.op \in {"access", "refresh"} =>
        /\ last.kwargs.secret = Yields("_encode_key_callback", last.identity)
        /\ last.kwargs.identity = Yields("_user_identity_callback", last.identity)
        /\ last.kwargs.user_claims \in
              {NoneValue, Yields("_user_claims_callback", last.identity)}
        /\ \A k \in {"secret", "identity", "user_claims"} :
              last.kwargs[k].tag # "coroutine"

\* C11: the lifetime handed to the encoder is the caller's expires_delta
\* whenever one is given (zero and negative deltas included), and otherwise
\* the configured lifetime of the token's own type: access_expires for
\* _create_access_token, refresh_expires for _create_refresh_token, never the
\* other type's lifetime.
C11_LifetimeFromCallerOrConfig ==
    /\ last.op \in {"access", "refresh"} /\ last.expires_given # <<>> =>
          last.kwargs.expires_delta = last.expires_given[1]
    /\ last.op = "access" /\ last.expires_given = <<>> =>
          /\ last.kwargs.expires_delta = config.access_expires
          /\ last.kwargs.expires_delta # config.refresh_expires
    /\ last.op = "refresh" /\ last.expires_given = <<>> =>
          /\ last.kwargs.expires_delta = config.refresh_expires
          /\ last.kwargs.expires_delta # config.access_expires

\* an access token was issued with a zero delta and the encoder got zero,
\* although the configured access lifetime is not zero
C11_Witness ==
    /\ last.op = "access"
    /\ last.expires_given = <<0>>
    /\ last.kwargs.expires_delta = 0
    /\ config.access_expires # 0

\* C12: a loader call for one hook leaves every other hook of the registry
\* unchanged and returns the callback it was given unchanged; handling a
\* failure and issuing a token leave every hook unchanged.
C12_LoaderReturnsCallbackAndFrame ==
    [][/\ last'.op = "loader" =>
             /\ \A h \in HookNames \ {last'.hook} : registry'[h] = registry[h]
             /\ last'.ret = last'.callback
       /\ last'.op \in {"handle", "access", "refresh"} =>
             registry' = registry]_vars

=============================================================================
